---- MODULE Spec2Model ----
(***************************************************************************)
(* VulnBoard: the board state engine (columns, per-column task lists,      *)
(* labels), the derived view pipeline of useTaskManagement (search, label  *)
(* filter, priority filter, sort) and the login / signup / logout flows of *)
(* authSlice that load, reset and clear the board.                         *)
(*                                                                         *)
(* Strings are sequences of one-character strings, so that toLowerCase,    *)
(* includes and localeCompare are computed and not assumed.  Ratings are   *)
(* counted in tenths (8.8 is 88).                                          *)
(***************************************************************************)
EXTENDS Integers, Sequences, FiniteSets, Bags, TLC

VARIABLES
    kanban,           \* state.kanban: [columns, tasks, labels]
    now,              \* the clock read by Date.now() / new Date()
    filters,          \* state.filter: [search, label, priority, sort]
    processed,        \* the last value of the processedTasks memo
    auth,             \* state.auth: [isAuthenticated, user, error, loading]
    registeredUsers,  \* localStorage 'kanban_registered_users'
    persisted,        \* per-user persisted kanban data (persistState.js)
    requests,         \* the bag of login / signup thunks suspended at their delay
    sanitizerCall,    \* the last call of a sanitizer: function, input, output
    modal,            \* AddTaskModal: isOpen, formData, errors, callbacks called
    card,             \* KanbanTaskCard: the rating shown by the last card rendered
    event             \* the operation that produced the current state

vars == <<kanban, now, filters, processed, auth, registeredUsers, persisted,
          requests, sanitizerCall, modal, card, event>>

boardVars == <<kanban, now>>
viewVars == <<filters, processed, sanitizerCall, modal, card>>
authVars == <<auth, registeredUsers, persisted, requests>>

----------------------------------------------------------------------------
(* Bounds of the model *)

\* task ids are drawn from IdBase .. IdBase + MaxIdSpan - 1
MaxIdSpan == 2
\* the board holds at most this many tasks
MaxTasks == 2
\* the clock runs from 0 to MaxNow
MaxNow == 2
\* the longest column list the filter stages are given
MaxFilterTasks == 2
\* the longest column list the sort stage is given
MaxSortTasks == 3
\* login / signup requests that may be suspended at their delay at once
MaxRequests == 1
\* the tasks a user puts on the dashboard between logins
MaxDashboardTasks == 1

----------------------------------------------------------------------------
(* Strings *)

Range(f) == {f[i] : i \in DOMAIN f}

UpperLetters == <<"A", "B", "C", "D", "E", "F", "G", "H", "I", "J", "K", "L", "M",
                  "N", "O", "P", "Q", "R", "S", "T", "U", "V", "W", "X", "Y", "Z">>
LowerLetters == <<"a", "b", "c", "d", "e", "f", "g", "h", "i", "j", "k", "l", "m",
                  "n", "o", "p", "q", "r", "s", "t", "u", "v", "w", "x", "y", "z">>
Digits == {"0", "1", "2", "3", "4", "5", "6", "7", "8", "9"}

\* the place of c among the letters, 0 if it is none of them
LetterIndex(c, letters) ==
    IF \E i \in DOMAIN letters : letters[i] = c
    THEN CHOOSE i \in DOMAIN letters : letters[i] = c
    ELSE 0

\* String.prototype.toLowerCase on one character
LowerChar(c) ==
    IF LetterIndex(c, UpperLetters) > 0
    THEN LowerLetters[LetterIndex(c, UpperLetters)]
    ELSE c

toLowerCase(s) == [i \in 1..Len(s) |-> LowerChar(s[i])]

\* String.prototype.includes: sub occurs in s as a contiguous run
includes(s, sub) ==
    \E i \in 0..(Len(s) - Len(sub)) :
        \A j \in 1..Len(sub) : s[i + j] = sub[j]

----------------------------------------------------------------------------
(* JavaScript values that may be undefined *)

UndefStr == <<"undefined">>
UndefPriority == "undefined"
UndefRating == 0 - 1
UndefLabels == <<"undefined">>

\* truthiness of a string / number operand of ||
TruthyStr(s) == s # UndefStr /\ s # <<>>
TruthyPriority(p) == p # UndefPriority /\ p # ""
TruthyRating(r) == r # UndefRating /\ r # 0

----------------------------------------------------------------------------
(* inputSanitization.js *)

Letters == Range(UpperLetters) \cup Range(LowerLetters)
WordChars == Letters \cup Digits \cup {"_"}
Whitespace == {" ", "\t", "\n", "\r", "\f"}

\* [\x00-\x08\x0B\x0C\x0E-\x1F\x7F], of which the model's strings use \f
ControlChars == {"\f"}

RemoveChars(s, S) == SelectSeq(s, LAMBDA c : c \notin S)

FirstIndex(s, c) == CHOOSE i \in DOMAIN s : s[i] = c /\ \A j \in 1..(i - 1) : s[j] # c

\* .replace(/<[^>]*>/g, ''): from a '<' to the nearest '>'
RECURSIVE StripTags(_)
StripTags(s) ==
    IF s = <<>> THEN <<>>
    ELSE IF Head(s) = "<" /\ ">" \in Range(s)
    THEN StripTags(SubSeq(s, FirstIndex(s, ">") + 1, Len(s)))
    ELSE <<Head(s)>> \o StripTags(Tail(s))

JavascriptProtocol == <<"j", "a", "v", "a", "s", "c", "r", "i", "p", "t", ":">>

\* .replace(/javascript:/gi, ''): one pass, left to right
RECURSIVE RemoveJavascript(_)
RemoveJavascript(s) ==
    IF s = <<>> THEN <<>>
    ELSE IF /\ Len(s) >= Len(JavascriptProtocol)
            /\ toLowerCase(SubSeq(s, 1, Len(JavascriptProtocol))) = JavascriptProtocol
    THEN RemoveJavascript(SubSeq(s, Len(JavascriptProtocol) + 1, Len(s)))
    ELSE <<Head(s)>> \o RemoveJavascript(Tail(s))

\* the length of the longest run of characters of S that starts at s[from]
RunLength(s, from, S) ==
    LET ends == {n \in 0..(Len(s) - from + 1) :
                    \A j \in from..(from + n - 1) : s[j] \in S}
    IN  CHOOSE n \in ends : \A m \in ends : m <= n

\* the length of the match of /on\w+\s*=/i at the head of s, 0 if there is none
HandlerMatch(s) ==
    IF Len(s) >= 4 /\ LowerChar(s[1]) = "o" /\ LowerChar(s[2]) = "n"
    THEN LET w == RunLength(s, 3, WordChars)
             sp == RunLength(s, 3 + w, Whitespace)
         IN  IF w >= 1 /\ 3 + w + sp <= Len(s) /\ s[3 + w + sp] = "="
             THEN 3 + w + sp ELSE 0
    ELSE 0

\* .replace(/on\w+\s*=/gi, ''): one pass, left to right
RECURSIVE RemoveHandlers(_)
RemoveHandlers(s) ==
    IF s = <<>> THEN <<>>
    ELSE IF HandlerMatch(s) > 0
    THEN RemoveHandlers(SubSeq(s, HandlerMatch(s) + 1, Len(s)))
    ELSE <<Head(s)>> \o RemoveHandlers(Tail(s))

\* String.prototype.trim
RECURSIVE TrimLeft(_)
TrimLeft(s) ==
    IF s # <<>> /\ Head(s) \in Whitespace THEN TrimLeft(Tail(s)) ELSE s

trim(s) == LET rev(t) == [i \in 1..Len(t) |-> t[Len(t) + 1 - i]]
           IN  rev(TrimLeft(rev(TrimLeft(s))))

\* sanitizeInput(input, {maxLength, allowHTML, preserveNewlines}); an input that
\* is not a string is UndefStr and yields ''
sanitizeInput(input, maxLength, allowHTML, preserveNewlines) ==
    IF input = UndefStr THEN <<>>
    ELSE LET noControl == RemoveChars(input, ControlChars)
             noHTML == IF ~allowHTML
                       THEN RemoveHandlers(RemoveJavascript(
                                RemoveChars(StripTags(noControl),
                                            {"<", ">", "\"", "'"})))
                       ELSE noControl
             oneLine == IF ~preserveNewlines
                        THEN [i \in 1..Len(noHTML) |->
                                IF noHTML[i] \in {"\r", "\n"} THEN " " ELSE noHTML[i]]
                        ELSE noHTML
             trimmed == trim(oneLine)
         IN  IF Len(trimmed) > maxLength THEN SubSeq(trimmed, 1, maxLength)
             ELSE trimmed

\* /^[a-zA-Z0-9._%+-]+@[a-zA-Z0-9.-]+\.[a-zA-Z]{2,}$/
EmailFormat(s) ==
    \E at \in 2..Len(s), dot \in 4..Len(s) :
        /\ s[at] = "@"
        /\ \A i \in 1..(at - 1) : s[i] \in Letters \cup Digits \cup {".", "_", "%", "+", "-"}
        /\ dot >= at + 2
        /\ s[dot] = "."
        /\ \A i \in (at + 1)..(dot - 1) : s[i] \in Letters \cup Digits \cup {".", "-"}
        /\ Len(s) >= dot + 2
        /\ \A i \in (dot + 1)..Len(s) : s[i] \in Letters

\* sanitizeEmail(email): lower case, drop all but [a-z0-9@.\-_+], test the format
sanitizeEmail(email) ==
    IF email = UndefStr THEN <<>>
    ELSE LET sanitized == trim(SelectSeq(toLowerCase(email),
                              LAMBDA c : c \in Range(LowerLetters) \cup Digits
                                              \cup {"@", ".", "-", "_", "+"}))
         IN  IF EmailFormat(sanitized) THEN sanitized ELSE <<>>

----------------------------------------------------------------------------
(* The board store (kanbanSlice) *)

ColumnIds(k) == {k.columns[i].id : i \in DOMAIN k.columns}

\* initialState of kanbanSlice: default columns, no tasks
DefaultSeed ==
    [columns |-> << [id |-> "backlog", title |-> "Backlog", order |-> 0],
                    [id |-> "todo", title |-> "To Do", order |-> 1] >>,
     tasks |-> [c \in {"backlog", "todo"} |-> <<>>],
     labels |-> <<>>]

\* every task of the board, column after column
RECURSIVE Concat(_)
Concat(ss) == IF ss = <<>> THEN <<>> ELSE Head(ss) \o Concat(Tail(ss))

AllTasks(k) == Concat([i \in DOMAIN k.columns |->
                        IF k.columns[i].id \in DOMAIN k.tasks
                        THEN k.tasks[k.columns[i].id] ELSE <<>>])

TaskCount(k) == Len(AllTasks(k))

\* the columns whose list holds a task with this id
ColumnsOf(k, taskId) ==
    {c \in DOMAIN k.tasks : \E i \in DOMAIN k.tasks[c] : k.tasks[c][i].id = taskId}

Occurrences(k, taskId) ==
    Cardinality({<<c, i>> \in (DOMAIN k.tasks) \X (1..TaskCount(k)) :
                    i \in DOMAIN k.tasks[c] /\ k.tasks[c][i].id = taskId})

\* addTask({columnId, task}): append to the end of the column's list
addTask(k, columnId, task) ==
    IF columnId \in DOMAIN k.tasks
    THEN [k EXCEPT !.tasks[columnId] = Append(@, task)]
    ELSE k

\* deleteTask(taskId): remove the task from the list that holds it
deleteTask(k, taskId) ==
    [k EXCEPT !.tasks = [c \in DOMAIN k.tasks |->
                            SelectSeq(k.tasks[c], LAMBDA t : t.id # taskId)]]

\* the task with this id, as the reducer finds it
FindTask(k, taskId) ==
    LET c == CHOOSE c \in ColumnsOf(k, taskId) : TRUE
        i == CHOOSE i \in DOMAIN k.tasks[c] :
                /\ k.tasks[c][i].id = taskId
                /\ \A j \in 1..(i - 1) : k.tasks[c][j].id # taskId
    IN  k.tasks[c][i]

\* moveTask({taskId, columnId, index}): remove from the source list and insert
\* into the target list (at the end when no index is given)
moveTask(k, taskId, columnId) ==
    IF ColumnsOf(k, taskId) = {} \/ columnId \notin DOMAIN k.tasks
    THEN k
    ELSE LET t == FindTask(k, taskId)
             removed == deleteTask(k, taskId)
         IN  [removed EXCEPT !.tasks[columnId] = Append(@, t)]

----------------------------------------------------------------------------
(* useTaskManagement: task operations *)

IdBase == 1000

TaskIdRange == IdBase..(IdBase + MaxIdSpan - 1)

NewTaskTitle == <<"N", "e", "w", " ", "T", "a", "s", "k">>

\* taskData as the sanitizer hands it over: `keys` are the keys present, a key
\* that is absent reads as undefined
TaskData(keys, title, details, labels, priority, rating) ==
    [keys |-> keys,
     title |-> IF "title" \in keys THEN title ELSE UndefStr,
     details |-> IF "details" \in keys THEN details ELSE UndefStr,
     labels |-> IF "labels" \in keys THEN labels ELSE UndefLabels,
     priority |-> IF "priority" \in keys THEN priority ELSE UndefPriority,
     rating |-> IF "rating" \in keys THEN rating ELSE UndefRating]

\* { ...defaults, ...taskData }: a key present in taskData wins
Spread(taskData, key, dflt) ==
    IF key \in taskData.keys THEN taskData[key] ELSE dflt

\* Math.floor(1000 + Math.random() * 9000) is the id handed in
NewTask(id, taskData, clock) ==
    [id |-> id,
     title |-> Spread(taskData, "title",
                  IF TruthyStr(taskData.title) THEN taskData.title ELSE NewTaskTitle),
     details |-> Spread(taskData, "details",
                  IF TruthyStr(taskData.details) THEN taskData.details ELSE <<>>),
     labels |-> Spread(taskData, "labels",
                  IF taskData.labels # UndefLabels THEN taskData.labels ELSE <<>>),
     priority |-> Spread(taskData, "priority",
                  IF TruthyPriority(taskData.priority) THEN taskData.priority
                  ELSE "Medium"),
     rating |-> Spread(taskData, "rating",
                  IF TruthyRating(taskData.rating) THEN taskData.rating ELSE 88),
     createdAt |-> clock]

\* what the add-task form submits and what a caller of the hook may pass
TaskDataInputs ==
    { TaskData({"title"}, <<"S", "q", "l">>, <<>>, <<>>, "", 0),
      TaskData({"title", "priority", "rating", "labels"},
               <<"x">>, <<>>, <<"lbl-A">>, "High", 50),
      TaskData({"title", "details", "priority", "rating"},
               <<"x">>, <<"s", "q", "l">>, <<>>, "Low", 0),
      \* priority and rating present with the value undefined
      TaskData({"title", "priority", "rating"},
               <<"x">>, <<>>, <<>>, UndefPriority, UndefRating),
      \* no title, as sanitizeTaskData leaves an empty title
      TaskData({"priority", "rating"}, <<>>, <<>>, <<>>, "High", 50) }

Ev(type, email) == [type |-> type, email |-> email]

NoEmail == <<>>

addNewTask(columnId, taskData, id) ==
    /\ TaskCount(kanban) < MaxTasks
    /\ kanban' = addTask(kanban, columnId, NewTask(id, taskData, now))
    /\ event' = Ev("addNewTask", NoEmail)
    /\ UNCHANGED <<now, viewVars, authVars>>

removeTask(taskId) ==
    /\ kanban' = deleteTask(kanban, taskId)
    /\ event' = Ev("removeTask", NoEmail)
    /\ UNCHANGED <<now, viewVars, authVars>>

moveTaskToColumn(taskId, columnId) ==
    /\ kanban' = moveTask(kanban, taskId, columnId)
    /\ event' = Ev("moveTaskToColumn", NoEmail)
    /\ UNCHANGED <<now, viewVars, authVars>>

\* time passes
Tick ==
    /\ now < MaxNow
    /\ now' = now + 1
    /\ event' = Ev("tick", NoEmail)
    /\ UNCHANGED <<kanban, viewVars, authVars>>

----------------------------------------------------------------------------
(* useTaskManagement: processedTasks, the derived view *)

\* A JavaScript array in the memo: its items, and whether it is the very array
\* object held by the store (so that an in-place sort would reorder the store)
Arr(items, shared) == [items |-> items, shared |-> shared]

\* (mutant) let columnTasks = kanban.tasks[columnId]: the store's own array
SpreadCopy_Aliased(stored) == Arr(stored, TRUE)

\* [...kanban.tasks[columnId]]: a fresh array with the same items
SpreadCopy(stored) == Arr(stored, FALSE)

\* (mutant) the search term is compared as typed
MatchesSearch_TermAsTyped(task, search) ==
    \/ includes(toLowerCase(task.title), search)
    \/ includes(toLowerCase(task.details), search)

\* the search predicate of the filter callback
MatchesSearch(task, search) ==
    \/ includes(toLowerCase(task.title), toLowerCase(search))
    \/ includes(toLowerCase(task.details), toLowerCase(search))

\* the callback throws a TypeError on a task whose title is undefined, or whose
\* title does not match and whose details are undefined
SearchThrows(items, search) ==
    /\ search # <<>>
    /\ \E i \in DOMAIN items :
          \/ items[i].title = UndefStr
          \/ /\ ~includes(toLowerCase(items[i].title), toLowerCase(search))
             /\ items[i].details = UndefStr

\* if (filters.search) columnTasks = columnTasks.filter(...)
SearchStage(a, search) ==
    IF search # <<>>
    THEN Arr(SelectSeq(a.items, LAMBDA t : MatchesSearch(t, search)), FALSE)
    ELSE a

\* filterTasksByLabel(tasks, labelId): the tasks whose labels contain labelId
filterTasksByLabel(items, labelId) ==
    SelectSeq(items, LAMBDA t : t.labels # UndefLabels /\ labelId \in Range(t.labels))

\* a label filter value: null, a single label id, or an array of label ids
NullLabel == [kind |-> "null", ids |-> <<>>]
SingleLabel(id) == [kind |-> "single", ids |-> <<id>>]
LabelArray(ids) == [kind |-> "array", ids |-> ids]

\* if (filters.label): null, undefined and '' are falsy, every array is truthy
TruthyLabel(label) == label.kind = "array" \/ (label.kind = "single" /\ label.ids # <<"">>)

\* (mutant) every() in place of some()
HasSomeLabel_Every(task, ids) ==
    /\ task.labels # UndefLabels
    /\ \A i \in DOMAIN ids : ids[i] \in Range(task.labels)

\* task.labels && filters.label.some(labelId => task.labels.includes(labelId))
HasSomeLabel(task, ids) ==
    /\ task.labels # UndefLabels
    /\ \E i \in DOMAIN ids : ids[i] \in Range(task.labels)

LabelStage(a, label) ==
    IF TruthyLabel(label)
    THEN IF label.kind = "array"
         THEN Arr(SelectSeq(a.items, LAMBDA t : HasSomeLabel(t, label.ids)), FALSE)
         ELSE Arr(filterTasksByLabel(a.items, label.ids[1]), FALSE)
    ELSE a

\* if (filters.priority) columnTasks = columnTasks.filter(task => task.priority === ...)
PriorityStage(a, priority) ==
    IF priority # ""
    THEN Arr(SelectSeq(a.items, LAMBDA t : t.priority = priority), FALSE)
    ELSE a

\* (mutant) the priorities ranked by name
priorityOrder_ByName(p) ==
    CASE p = "Critical" -> 4
      [] p = "High" -> 3
      [] p = "Low" -> 2
      [] p = "Medium" -> 1
      [] OTHER -> 0

\* const priorityOrder = { Critical: 4, High: 3, Medium: 2, Low: 1 }; 0 stands
\* for the undefined that any other key reads
priorityOrder(p) ==
    CASE p = "Critical" -> 4
      [] p = "High" -> 3
      [] p = "Medium" -> 2
      [] p = "Low" -> 1
      [] OTHER -> 0

\* a - b, where a comparator result of NaN counts as 0 (SortCompare)
Minus(a, b, aNaN, bNaN) == IF aNaN \/ bNaN THEN 0 ELSE a - b

\* (task.rating || 0)
RatingOrZero(task) == IF TruthyRating(task.rating) THEN task.rating ELSE 0

\* the rank of a character at the primary (letter) level of the collation:
\* the space, then the letters, either case alike
PrimaryRank(c) ==
    IF c = " " THEN 1
    ELSE IF LetterIndex(c, LowerLetters) > 0 THEN 1 + LetterIndex(c, LowerLetters)
    ELSE IF LetterIndex(c, UpperLetters) > 0 THEN 1 + LetterIndex(c, UpperLetters)
    ELSE 0

Min(a, b) == IF a < b THEN a ELSE b

\* String.prototype.localeCompare: letters first, then lower case before upper
localeCompare(a, b) ==
    LET n == Min(Len(a), Len(b))
        primaryDiff == {i \in 1..n : PrimaryRank(a[i]) # PrimaryRank(b[i])}
        caseDiff == {i \in 1..n : a[i] # b[i]}
        first(S) == CHOOSE i \in S : \A j \in S : i <= j
    IN  IF primaryDiff # {}
        THEN IF PrimaryRank(a[first(primaryDiff)]) < PrimaryRank(b[first(primaryDiff)])
             THEN 0 - 1 ELSE 1
        ELSE IF Len(a) # Len(b)
        THEN IF Len(a) < Len(b) THEN 0 - 1 ELSE 1
        ELSE IF caseDiff # {}
        THEN IF a[first(caseDiff)] = LowerChar(a[first(caseDiff)]) THEN 0 - 1 ELSE 1
        ELSE 0

SortKeys == {"date", "date-asc", "priority", "priority-asc", "title", "title-desc",
             "rating", "rating-asc"}

\* the comparator that filters.sort selects
Compare(sort, a, b) ==
    CASE sort = "date" -> b.createdAt - a.createdAt
      [] sort = "date-asc" -> a.createdAt - b.createdAt
      [] sort = "priority" ->
            Minus(priorityOrder(b.priority), priorityOrder(a.priority),
                  priorityOrder(a.priority) = 0, priorityOrder(b.priority) = 0)
      [] sort = "priority-asc" ->
            Minus(priorityOrder(a.priority), priorityOrder(b.priority),
                  priorityOrder(a.priority) = 0, priorityOrder(b.priority) = 0)
      [] sort = "title" -> localeCompare(a.title, b.title)
      [] sort = "title-desc" -> localeCompare(b.title, a.title)
      [] sort = "rating" -> RatingOrZero(b) - RatingOrZero(a)
      [] sort = "rating-asc" -> RatingOrZero(a) - RatingOrZero(b)
      [] OTHER -> 0

\* the items in the order of the comparator: items[j] comes before items[i] if
\* the comparator puts it first, or puts neither first and j < i; an item's
\* place is one more than the number of items that come before it.  (The
\* comparators are consistent on tasks whose sort keys are defined.)
StableOrder(items, sort) ==
    LET n == Len(items)
        before(j, i) ==
            \/ Compare(sort, items[j], items[i]) < 0
            \/ Compare(sort, items[j], items[i]) = 0 /\ j < i
        place(i) == 1 + Cardinality({j \in 1..n : j # i /\ before(j, i)})
    IN  [p \in 1..n |-> items[CHOOSE i \in 1..n : place(i) = p]]

\* Array.prototype.sort with the comparator that filters.sort selects; the
\* sort is stable
ArraySort(items, sort) ==
    CHOOSE sorted \in {StableOrder(its, sort) : its \in {items}} : TRUE

\* (mutant) the descending orders as the ascending sort, reversed
SortStage_Reversed(a, sort) ==
    LET rev(s) == [i \in 1..Len(s) |-> s[Len(s) + 1 - i]]
    IN  CASE sort = "priority" -> Arr(rev(ArraySort(a.items, "priority-asc")), a.shared)
          [] sort = "rating" -> Arr(rev(ArraySort(a.items, "rating-asc")), a.shared)
          [] sort = "date" -> Arr(rev(ArraySort(a.items, "date-asc")), a.shared)
          [] sort \in SortKeys -> Arr(ArraySort(a.items, sort), a.shared)
          [] OTHER -> a

\* the if / else-if chain on filters.sort; sort() reorders the array in place
SortStage(a, sort) ==
    IF sort \in SortKeys THEN Arr(ArraySort(a.items, sort), a.shared) ELSE a

\* the body of the forEach for one column
ProcessColumn(stored, f) ==
    SortStage(PriorityStage(LabelStage(SearchStage(SpreadCopy(stored), f.search),
                                       f.label), f.priority), f.sort)

\* the arrays the forEach leaves, one per key of kanban.tasks
ProcessAll(k, f) == [c \in DOMAIN k.tasks |-> ProcessColumn(k.tasks[c], f)]

Throws(k, f) == \E c \in DOMAIN k.tasks : SearchThrows(k.tasks[c], f.search)

\* the value of the memo: one list per column, or the TypeError thrown
ProcessedResult(k, f, arrays) ==
    IF Throws(k, f)
    THEN [status |-> "TypeError", lists |-> [c \in {} |-> <<>>]]
    ELSE [status |-> "ok", lists |-> [c \in DOMAIN k.tasks |-> arrays[c].items]]

\* what the store holds once the memo has run: a list is reordered only if the
\* array that was sorted is the store's own
StoreAfterProcessing(k, f, arrays) ==
    IF Throws(k, f)
    THEN k
    ELSE [k EXCEPT !.tasks = [c \in DOMAIN k.tasks |->
                                 IF arrays[c].shared THEN arrays[c].items
                                 ELSE k.tasks[c]]]

processedTasks ==
    \E arrays \in {ProcessAll(kanban, filters)} :
        /\ processed' = ProcessedResult(kanban, filters, arrays)
        /\ kanban' = StoreAfterProcessing(kanban, filters, arrays)
        /\ event' = Ev("processedTasks", NoEmail)
        /\ UNCHANGED <<now, filters, sanitizerCall, modal, card, authVars>>

----------------------------------------------------------------------------
(* Initial values *)

DefaultFilters == [search |-> <<>>, label |-> NullLabel,
                   priority |-> "", sort |-> "date"]

NoProjection == [status |-> "none", lists |-> [c \in {} |-> <<>>]]

\* no sanitizer has been called
NoCall == [fn |-> "none", input |-> <<>>, done |-> FALSE, output |-> <<>>]

\* AddTaskModal: getDefaultValues(), the empty errors object, and the modal
\* before it is opened (no callback called)
getDefaultValues == [title |-> <<>>, priority |-> "", rating |-> <<>>, labels |-> <<>>]

NoErrors == [title |-> "", priority |-> "", rating |-> ""]

ClosedModal ==
    [isOpen |-> FALSE, columnId |-> "", formData |-> getDefaultValues,
     errors |-> NoErrors, called |-> [onSubmit |-> <<>>, onClose |-> FALSE]]

\* no task card has been rendered
NoCard == [taskId |-> 0 - 1, ratingValue |-> 0, filledSegments |-> 0]

\* state.auth.user when it is null
NoUser == [email |-> <<>>, id |-> 0 - 1]

\* initialState of authSlice; "" stands for the null error
InitialAuth == [isAuthenticated |-> FALSE, user |-> NoUser, error |-> "",
                loading |-> FALSE]

NothingPersisted == [u \in {} |-> DefaultSeed]

Init ==
    /\ kanban = DefaultSeed
    /\ now = 0
    /\ filters = DefaultFilters
    /\ processed = NoProjection
    /\ auth = InitialAuth
    /\ registeredUsers = <<>>
    /\ persisted = NothingPersisted
    /\ requests = EmptyBag
    /\ sanitizerCall = NoCall
    /\ modal = ClosedModal
    /\ card = NoCard
    /\ event = Ev("init", NoEmail)

Next ==
    \/ \E c \in ColumnIds(kanban), d \in TaskDataInputs, id \in TaskIdRange :
          addNewTask(c, d, id)
    \/ \E id \in TaskIdRange : removeTask(id)
    \/ \E id \in TaskIdRange, c \in ColumnIds(kanban) : moveTaskToColumn(id, c)
    \/ Tick

Spec == Init /\ [][Next]_vars

----------------------------------------------------------------------------
(* C1: after any sequence of addTask, moveTask and deleteTask operations,   *)
(* with ids generated as addNewTask does, every task id present on the      *)
(* board appears in exactly one column's list and exactly once in it.       *)
C1_SinglePlacement ==
    \A i \in DOMAIN AllTasks(kanban) :
        /\ Cardinality(ColumnsOf(kanban, AllTasks(kanban)[i].id)) = 1
        /\ Occurrences(kanban, AllTasks(kanban)[i].id) = 1

(* C12: addNewTask constructs a task with the generated id and createdAt =  *)
(* now, with rating 8.8 whenever taskData leaves rating unspecified and     *)
(* priority 'Medium' whenever it leaves priority unspecified (the key       *)
(* absent, or present with the value undefined), and appends it to the end  *)
(* of the column's list.                                                    *)
Unspecified(taskData, key, undef) ==
    key \notin taskData.keys \/ taskData[key] = undef

C12_AddTaskDefaults ==
    [][\A c \in ColumnIds(kanban), d \in TaskDataInputs, id \in TaskIdRange :
          addNewTask(c, d, id) =>
             /\ Len(kanban'.tasks[c]) = Len(kanban.tasks[c]) + 1
             /\ SubSeq(kanban'.tasks[c], 1, Len(kanban.tasks[c])) = kanban.tasks[c]
             /\ LET t == kanban'.tasks[c][Len(kanban'.tasks[c])]
                IN  /\ t.id = id
                    /\ t.createdAt = now
                    /\ Unspecified(d, "rating", UndefRating) => t.rating = 88
                    /\ Unspecified(d, "priority", UndefPriority) => t.priority = "Medium"]_vars

(* C13: a task creation whose title is absent or empty is rejected and      *)
(* stores no task.                                                          *)
C13_TitleRequired ==
    [][\A c \in ColumnIds(kanban), d \in TaskDataInputs, id \in TaskIdRange :
          (addNewTask(c, d, id) /\ ~TruthyStr(d.title)) => kanban' = kanban]_vars

----------------------------------------------------------------------------
(* persistState.js and the board reducers the auth flows dispatch *)

\* clearUserData(email): the user's persisted board data is removed
clearUserData(p, email) == [u \in (DOMAIN p) \ {email} |-> p[u]]

\* loadPersistedState(email): the persisted data of the user, with the board
\* under `kanban`; for a user with nothing persisted either null or an object
\* without the key
LoadOutcomes(p, email) ==
    IF email \in DOMAIN p
    THEN { [kind |-> "data", kanban |-> p[email]] }
    ELSE { [kind |-> "null", kanban |-> DefaultSeed],
           [kind |-> "empty", kanban |-> DefaultSeed] }

\* setKanbanFromLocalStorage(kanban): the board is replaced wholesale
setKanbanFromLocalStorage(k, snapshot) == snapshot

\* resetKanbanState(): the board is the default seed again
resetKanbanState(k) == DefaultSeed

\* the store subscription saves the board under the key of the user logged in
persistKanban ==
    /\ auth.isAuthenticated
    /\ persisted' = [u \in (DOMAIN persisted) \cup {auth.user.email} |->
                        IF u = auth.user.email THEN kanban ELSE persisted[u]]
    /\ event' = Ev("persistKanban", auth.user.email)
    /\ UNCHANGED <<boardVars, viewVars, auth, registeredUsers, requests>>

----------------------------------------------------------------------------
(* authSlice.js *)

PasswordMaxLength == 100
SignupMinPassword == 6
SignupMaxPassword == 50

InvalidEmailMsg == "Please enter a valid email address"
PasswordRequiredMsg == "Password is required"
NotRegisteredMsg == "User not registered. Please sign up first."
InvalidPasswordMsg == "Invalid password"
LoginFailedMsg == "Login failed. Please try again."
PasswordShortMsg == "Password must be at least 6 characters long"
PasswordLongMsg == "Password must be less than 50 characters"
AlreadyRegisteredMsg == "User already registered. Please login instead."

\* registeredUsers.find(u => u.email === sanitizedEmail)
IsRegistered(users, email) == \E i \in DOMAIN users : users[i].email = email

FindUser(users, email) ==
    users[CHOOSE i \in DOMAIN users :
            /\ users[i].email = email
            /\ \A j \in 1..(i - 1) : users[j].email # email]

\* the pending reducers of login and signup
Pending(a) == [a EXCEPT !.loading = TRUE, !.error = ""]

\* the fulfilled reducers of login and signup
Fulfilled(a, payload) ==
    [a EXCEPT !.isAuthenticated = TRUE, !.user = payload, !.loading = FALSE,
              !.error = ""]

\* (mutant) the rejected reducer leaves loading as it is
Rejected_KeepsLoading(a, message) == [a EXCEPT !.error = message]

\* (mutant) the rejected reducer also signs the user out
Rejected_SignsOut(a, message) ==
    [a EXCEPT !.error = message, !.loading = FALSE, !.isAuthenticated = FALSE,
              !.user = NoUser]

\* the rejected reducers of login and signup
Rejected(a, message) == [a EXCEPT !.error = message, !.loading = FALSE]

Request(kind, email, password) ==
    [kind |-> kind, email |-> email, password |-> password]

\* login, from the dispatch to the simulated API delay
LoginDispatch(rawEmail, rawPassword) ==
    LET sanitizedEmail == sanitizeEmail(rawEmail)
        sanitizedPassword == sanitizeInput(rawPassword, PasswordMaxLength, FALSE, FALSE)
    IN  /\ IF sanitizedEmail = <<>>
           THEN /\ auth' = Rejected(Pending(auth), InvalidEmailMsg)
                /\ event' = Ev("login/rejected", sanitizedEmail)
                /\ UNCHANGED requests
           ELSE IF sanitizedPassword = <<>>
           THEN /\ auth' = Rejected(Pending(auth), PasswordRequiredMsg)
                /\ event' = Ev("login/rejected", sanitizedEmail)
                /\ UNCHANGED requests
           ELSE /\ auth' = Pending(auth)
                /\ requests' = requests (+) SetToBag(
                                  {Request("login", sanitizedEmail, sanitizedPassword)})
                /\ event' = Ev("login/pending", sanitizedEmail)
        /\ UNCHANGED <<boardVars, viewVars, registeredUsers, persisted>>

\* currentState.auth.user && currentState.auth.user.email !== sanitizedEmail
SwitchingUsers(a, email) == a.user # NoUser /\ a.user.email # email

\* (mutant) the else branch leaves the board as it is
LoginLoadKanban_KeepBoard(k, loaded) ==
    IF loaded.kind = "data"
    THEN setKanbanFromLocalStorage(k, loaded.kanban)
    ELSE k

\* the board after the load step of login: the persisted board if there is
\* one, the default seed otherwise
LoginLoadKanban(k, loaded) ==
    IF loaded.kind = "data"
    THEN setKanbanFromLocalStorage(k, loaded.kanban)
    ELSE resetKanbanState(k)

\* (mutant) the thunk returns the registered user as stored
UserPayload_WholeUser(user) == user

\* the value login and signup return: the user data without the password
UserPayload(user) == [email |-> user.email, id |-> user.id]

\* login, from the end of the delay to the fulfilled or rejected action
LoginResume(r) ==
    LET user == FindUser(registeredUsers, r.email)
        switching == SwitchingUsers(auth, r.email)
        cleared == IF switching THEN clearUserData(persisted, auth.user.email)
                   ELSE persisted
        board == IF switching THEN resetKanbanState(kanban) ELSE kanban
    IN  /\ BagIn(r, requests)
        /\ r.kind = "login"
        /\ requests' = requests (-) SetToBag({r})
        /\ IF ~IsRegistered(registeredUsers, r.email)
           THEN /\ auth' = Rejected(auth, NotRegisteredMsg)
                /\ event' = Ev("login/rejected", r.email)
                /\ UNCHANGED <<kanban, persisted>>
           ELSE IF user.password # r.password
           THEN /\ auth' = Rejected(auth, InvalidPasswordMsg)
                /\ event' = Ev("login/rejected", r.email)
                /\ UNCHANGED <<kanban, persisted>>
           ELSE \E loaded \in LoadOutcomes(cleared, r.email) :
                  /\ persisted' = cleared
                  /\ IF loaded.kind = "null"
                     THEN \* const { kanban } = null throws; the catch rejects
                          /\ kanban' = board
                          /\ auth' = Rejected(auth, LoginFailedMsg)
                          /\ event' = Ev("login/rejected", r.email)
                     ELSE /\ kanban' = LoginLoadKanban(board, loaded)
                          /\ auth' = Fulfilled(auth, UserPayload(user))
                          /\ event' = Ev("login/fulfilled", r.email)
        /\ UNCHANGED <<now, viewVars, registeredUsers>>

\* signup, from the dispatch to the simulated API delay
SignupDispatch(rawEmail, rawPassword) ==
    LET sanitizedEmail == sanitizeEmail(rawEmail)
        sanitizedPassword == sanitizeInput(rawPassword, PasswordMaxLength, FALSE, FALSE)
    IN  /\ auth' = Pending(auth)
        /\ requests' = requests (+) SetToBag(
                          {Request("signup", sanitizedEmail, sanitizedPassword)})
        /\ event' = Ev("signup/pending", sanitizedEmail)
        /\ UNCHANGED <<boardVars, viewVars, registeredUsers, persisted>>

\* (mutant) signup does not look for an existing user
SignupRejection_AnyEmail(users, email, password) ==
    IF email = <<>> THEN InvalidEmailMsg
    ELSE IF password = <<>> \/ Len(password) < SignupMinPassword THEN PasswordShortMsg
    ELSE IF Len(password) > SignupMaxPassword THEN PasswordLongMsg
    ELSE ""

\* the message signup rejects with, "" if it does not reject
SignupRejection(users, email, password) ==
    IF email = <<>> THEN InvalidEmailMsg
    ELSE IF password = <<>> \/ Len(password) < SignupMinPassword THEN PasswordShortMsg
    ELSE IF Len(password) > SignupMaxPassword THEN PasswordLongMsg
    ELSE IF IsRegistered(users, email) THEN AlreadyRegisteredMsg
    ELSE ""

\* signup, from the end of the delay to the fulfilled or rejected action
SignupResume(r) ==
    LET message == SignupRejection(registeredUsers, r.email, r.password)
        newUser == [id |-> now, email |-> r.email, password |-> r.password,
                    createdAt |-> now]
    IN  /\ BagIn(r, requests)
        /\ r.kind = "signup"
        /\ requests' = requests (-) SetToBag({r})
        /\ IF message # ""
           THEN /\ auth' = Rejected(auth, message)
                /\ event' = Ev("signup/rejected", r.email)
                /\ UNCHANGED registeredUsers
           ELSE /\ registeredUsers' = Append(registeredUsers, newUser)
                /\ auth' = Fulfilled(auth, UserPayload(newUser))
                /\ event' = Ev("signup/fulfilled", r.email)
        /\ UNCHANGED <<boardVars, viewVars, persisted>>

\* the logout reducer: the user's data is cleared, the auth state reset
logout ==
    /\ persisted' = IF auth.user # NoUser /\ auth.user.email # <<>>
                    THEN clearUserData(persisted, auth.user.email)
                    ELSE persisted
    /\ auth' = InitialAuth
    /\ event' = Ev("logout", auth.user.email)
    /\ UNCHANGED <<boardVars, viewVars, registeredUsers, requests>>

\* (mutant) logoutUser clears the user's data as the logout reducer does
logoutUser_ClearsData ==
    /\ kanban' = resetKanbanState(kanban)
    /\ persisted' = IF auth.user # NoUser
                    THEN clearUserData(persisted, auth.user.email) ELSE persisted
    /\ auth' = InitialAuth
    /\ event' = Ev("logoutUser/fulfilled", auth.user.email)
    /\ UNCHANGED <<now, viewVars, registeredUsers, requests>>

\* the logoutUser thunk and its fulfilled reducer
logoutUser ==
    /\ kanban' = resetKanbanState(kanban)
    /\ auth' = InitialAuth
    /\ event' = Ev("logoutUser/fulfilled", auth.user.email)
    /\ UNCHANGED <<now, viewVars, registeredUsers, persisted, requests>>

\* the dashboard of the user logged in: a task is added or removed
BoardTaskData == TaskData({"title"}, <<"x">>, <<>>, <<>>, "", 0)

DashboardAddTask ==
    /\ auth.isAuthenticated
    /\ TaskCount(kanban) < MaxDashboardTasks
    /\ addNewTask("backlog", BoardTaskData, IdBase)

DashboardRemoveTask ==
    /\ auth.isAuthenticated
    /\ TaskCount(kanban) > 0
    /\ removeTask(IdBase)

\* what the login and signup forms are given
RawEmails == { <<"A", "@", "b", ".", "c", "o">>, <<"b", "@", "b", ".", "c", "o", " ">>,
               <<"a", "b">> }
RawPasswords == { <<"s", "e", "c", "r", "e", "t">>, <<"<", "b", ">", "s", "e", "c">> }

\* another request may be dispatched while fewer than `bound` are suspended
MayDispatch(bound) == BagCardinality(requests) < bound

AuthNext ==
    \/ \E e \in RawEmails, pw \in RawPasswords :
          MayDispatch(MaxRequests) /\ LoginDispatch(e, pw)
    \/ \E r \in BagToSet(requests) : LoginResume(r)
    \/ \E e \in RawEmails, pw \in RawPasswords :
          MayDispatch(MaxRequests) /\ SignupDispatch(e, pw)
    \/ \E r \in BagToSet(requests) : SignupResume(r)
    \/ logout
    \/ logoutUser
    \/ persistKanban
    \/ DashboardAddTask
    \/ DashboardRemoveTask

AuthSpec == Init /\ [][AuthNext]_vars

(* C5: a login or signup request that ends rejected leaves the board and    *)
(* every user's persisted data exactly as they were.                        *)
C5_RejectedLeavesState ==
    [][event'.type \in {"login/rejected", "signup/rejected"}
          => (kanban' = kanban /\ persisted' = persisted)]_vars

(* C6: after a login is fulfilled for user U the board equals U's persisted *)
(* snapshot if one exists and the default seed otherwise.                   *)
C6_LoginLoadsBoard ==
    event.type = "login/fulfilled"
    => kanban = IF event.email \in DOMAIN persisted THEN persisted[event.email]
                ELSE DefaultSeed

\* a fulfilled login that replaced the board by the user's persisted tasks
C6_Witness ==
    /\ event.type = "login/fulfilled"
    /\ event.email \in DOMAIN persisted
    /\ kanban = persisted[event.email]
    /\ TaskCount(kanban) = 1

RegisteredWith(users, email, password) ==
    \E i \in DOMAIN users : users[i].email = email /\ users[i].password = password

(* C29: for every email and password for which a signup was fulfilled, a    *)
(* later login with the same email and password is fulfilled, as long as    *)
(* that registration is still in the registered-user list: the login is not *)
(* rejected at its dispatch, and its resume step is fulfilled.              *)
C29_SignupThenLogin ==
    [][/\ \A e \in RawEmails, pw \in RawPasswords :
            (/\ event'.type \in {"login/pending", "login/rejected"}
             /\ LoginDispatch(e, pw)
             /\ RegisteredWith(registeredUsers, sanitizeEmail(e),
                               sanitizeInput(pw, PasswordMaxLength, FALSE, FALSE)))
            => event'.type = "login/pending"
       /\ \A r \in BagToSet(requests) :
            (/\ event'.type \in {"login/fulfilled", "login/rejected"}
             /\ LoginResume(r)
             /\ RegisteredWith(registeredUsers, r.email, r.password))
            => event'.type = "login/fulfilled"]_vars

(* C7: whenever a user is authenticated the board holds nothing of another  *)
(* user: after a signup is fulfilled the board is the default seed.         *)
C7_SignupStartsFromSeed ==
    event.type = "signup/fulfilled" => kanban = DefaultSeed

(* C8: a user's persisted board data is changed only by that user's own     *)
(* session saving the board: a login as another user, or a logout, never    *)
(* deletes or alters it.                                                    *)
C8_PersistedOnlyBySave ==
    [][\A u \in DOMAIN persisted :
          (u \notin DOMAIN persisted' \/ persisted'[u] # persisted[u])
          => (event'.type = "persistKanban" /\ event'.email = u)]_vars

----------------------------------------------------------------------------
(* authSlice.js: overlapping login and signup requests *)

\* login / signup requests that may be suspended at their delay at once
MaxOverlap == 2

\* the clearAuthError reducer
clearAuthError ==
    /\ auth.error # ""
    /\ auth' = [auth EXCEPT !.error = ""]
    /\ event' = Ev("clearAuthError", NoEmail)
    /\ UNCHANGED <<boardVars, viewVars, registeredUsers, persisted, requests>>

\* the setValidationError reducer
setValidationError(payload) ==
    /\ auth.error # payload
    /\ auth' = [auth EXCEPT !.error = payload]
    /\ event' = Ev("setValidationError", NoEmail)
    /\ UNCHANGED <<boardVars, viewVars, registeredUsers, persisted, requests>>

\* what the forms report before they dispatch
ValidationMessages == { "Please fill in all fields" }

SessionNext ==
    \/ \E e \in RawEmails, pw \in RawPasswords :
          MayDispatch(MaxOverlap) /\ LoginDispatch(e, pw)
    \/ \E r \in BagToSet(requests) : LoginResume(r)
    \/ \E e \in RawEmails, pw \in RawPasswords :
          MayDispatch(MaxOverlap) /\ SignupDispatch(e, pw)
    \/ \E r \in BagToSet(requests) : SignupResume(r)
    \/ logout
    \/ logoutUser
    \/ clearAuthError
    \/ \E m \in ValidationMessages : setValidationError(m)

SessionSpec == Init /\ [][SessionNext]_vars

(* C23: the registered-user list never holds two entries with the same      *)
(* email, for every interleaving of overlapping signup requests; a rejected *)
(* signup leaves the list unchanged.                                        *)
C23_UniqueRegisteredEmails ==
    [][/\ \A i, j \in DOMAIN registeredUsers' :
            registeredUsers'[i].email = registeredUsers'[j].email => i = j
       /\ event'.type = "signup/rejected" => registeredUsers' = registeredUsers]_vars

\* two signups for one email overlap: one is fulfilled while the other is
\* still suspended at its delay
C23_Witness ==
    /\ event.type = "signup/fulfilled"
    /\ IsRegistered(registeredUsers, event.email)
    /\ \E r \in BagToSet(requests) : r.kind = "signup" /\ r.email = event.email

(* C25: in every state reachable through login, signup, logout, logoutUser, *)
(* clearAuthError and setValidationError, isAuthenticated is true if and    *)
(* only if user is non-null, and a non-null user holds only email and id,   *)
(* never the password.                                                      *)
C25_AuthenticatedIffUser ==
    /\ auth.isAuthenticated <=> auth.user # NoUser
    /\ auth.user # NoUser => DOMAIN auth.user = {"email", "id"}

\* a registered user is logged in and a validation error has been set
C25_Witness ==
    /\ auth.isAuthenticated
    /\ auth.user.email # <<>>
    /\ IsRegistered(registeredUsers, auth.user.email)
    /\ event.type = "setValidationError"

(* C26: auth.loading is true whenever at least one login or signup request  *)
(* is pending, and false only when none is pending, for every interleaving  *)
(* of overlapping requests.                                                 *)
C26_LoadingWhilePending ==
    BagCardinality(requests) > 0 => auth.loading

\* the requests the forms can have suspended at the delay
RequestUniverse ==
    { Request(kind, sanitizeEmail(e), sanitizeInput(pw, PasswordMaxLength, FALSE, FALSE)) :
        kind \in {"login", "signup"}, e \in RawEmails, pw \in RawPasswords }

\* the timer of the simulated delay fires: a suspended thunk is resumed
FairSessionSpec ==
    /\ SessionSpec
    /\ \A r \in RequestUniverse :
          WF_vars(LoginResume(r)) /\ WF_vars(SignupResume(r))

----------------------------------------------------------------------------
(* The derived view on bounded boards and filter specifications *)

SeqsUpTo(U, n) == UNION {[1..m -> U] : m \in 0..n}

Reverse(s) == [i \in 1..Len(s) |-> s[Len(s) + 1 - i]]

StoredTask(title, details, labels, priority, rating, createdAt) ==
    [id |-> 0, title |-> title, details |-> details, labels |-> labels,
     priority |-> priority, rating |-> rating, createdAt |-> createdAt]

\* tasks that differ in what the filter stages read
FilterTasks ==
    { StoredTask(td[1], td[2], l, p, 88, 1) :
        td \in { << <<"S", "Q", "l">>, <<>> >>,
                 << <<"x">>, <<"s", "Q", "L">> >>,
                 << <<"x">>, <<>> >> },
        l \in { <<>>, <<"lbl-B">> },
        p \in { "High", "Low" } }

\* tasks that differ from one base task in one sort key
BaseTask == StoredTask(<<"b">>, <<>>, <<>>, "Medium", 50, 1)

SortTasks ==
    {BaseTask}
    \cup {[BaseTask EXCEPT !.priority = p] : p \in {"Critical", "High", "Low"}}
    \cup {[BaseTask EXCEPT !.rating = r] : r \in {UndefRating, 0}}
    \cup {[BaseTask EXCEPT !.createdAt = t] : t \in {0, 2}}
    \cup {[BaseTask EXCEPT !.title = t] : t \in {<<"a">>, <<"B">>}}

WithIds(ts, offset) == [i \in DOMAIN ts |-> [ts[i] EXCEPT !.id = IdBase + offset + i - 1]]

\* a board whose backlog holds ts and whose todo holds one other task
BoardOf(ts) ==
    [DefaultSeed EXCEPT !.tasks = [c \in {"backlog", "todo"} |->
        IF c = "backlog" THEN WithIds(ts, 0)
        ELSE <<[BaseTask EXCEPT !.id = IdBase + Len(ts)]>>]]

Searches == { <<>>, <<"q", "l">>, <<"Q", "l">> }

LabelFilters == { NullLabel, LabelArray(<<>>), LabelArray(<<"lbl-A">>),
                  LabelArray(<<"lbl-A", "lbl-B">>), SingleLabel("lbl-B") }

FilterSpecs ==
    [search : Searches, label : LabelFilters, priority : {"", "High"},
     sort : {"priority"}]

SortSpecs ==
    [search : {<<>>}, label : {NullLabel}, priority : {""},
     sort : SortKeys \cup {""}]

ViewInit ==
    /\ \/ \E ts \in SeqsUpTo(FilterTasks, MaxFilterTasks), f \in FilterSpecs :
            kanban = BoardOf(ts) /\ filters = f
       \/ \E ts \in SeqsUpTo(SortTasks, MaxSortTasks), f \in SortSpecs :
            kanban = BoardOf(ts) /\ filters = f
    /\ now = 0
    /\ processed = NoProjection
    /\ auth = InitialAuth
    /\ registeredUsers = <<>>
    /\ persisted = NothingPersisted
    /\ requests = EmptyBag
    /\ sanitizerCall = NoCall
    /\ modal = ClosedModal
    /\ card = NoCard
    /\ event = Ev("init", NoEmail)

ViewNext == processedTasks

ViewSpec == ViewInit /\ [][ViewNext]_vars

----------------------------------------------------------------------------
(* Properties of the derived view *)

Projected == event.type = "processedTasks" /\ processed.status = "ok"

\* sub occurs in s when letter case is ignored
ContainsIgnoringCase(s, sub) ==
    \E i \in 0..(Len(s) - Len(sub)) :
        \A j \in 1..Len(sub) : LowerChar(s[i + j]) = LowerChar(sub[j])

PositionOf(list, id) == CHOOSE i \in DOMAIN list : list[i].id = id

\* list is sub-list of stored: same tasks, no task twice
IsSelectionOf(list, stored) ==
    /\ Range(list) \subseteq Range(stored)
    /\ \A i, j \in DOMAIN list : i # j => list[i].id # list[j].id

(* C2: computing the projection for any filter/sort specification leaves    *)
(* every column's stored task list unchanged in content and order.          *)
C2_ProjectionKeepsStore ==
    [][event'.type = "processedTasks" => kanban' = kanban]_vars

\* stored [Low, Critical] projects to [Critical, Low] under sort 'priority'
C2_Witness ==
    /\ Projected
    /\ filters.sort = "priority"
    /\ Len(kanban.tasks["backlog"]) = 2
    /\ kanban.tasks["backlog"][1].priority = "Low"
    /\ kanban.tasks["backlog"][2].priority = "Critical"
    /\ processed.lists["backlog"] = Reverse(kanban.tasks["backlog"])

(* C3: with search, a label array and a priority all set, a column's        *)
(* projection holds exactly the tasks of the column that match the search   *)
(* term, carry at least one of the listed labels and have the priority.     *)
C3_FilterComposition ==
    (/\ Projected
     /\ filters.search # <<>>
     /\ filters.label.kind = "array"
     /\ filters.priority # "")
    => \A c \in DOMAIN kanban.tasks :
          /\ IsSelectionOf(processed.lists[c], kanban.tasks[c])
          /\ Range(processed.lists[c]) =
                {t \in Range(kanban.tasks[c]) :
                    /\ \/ ContainsIgnoringCase(t.title, filters.search)
                       \/ ContainsIgnoringCase(t.details, filters.search)
                    /\ Range(t.labels) \cap Range(filters.label.ids) # {}
                    /\ t.priority = filters.priority}

\* a projection that kept one task and dropped another, two labels listed
C3_Witness ==
    /\ Projected
    /\ filters.search # <<>>
    /\ filters.label = LabelArray(<<"lbl-A", "lbl-B">>)
    /\ filters.priority = "High"
    /\ Len(kanban.tasks["backlog"]) = 2
    /\ Len(processed.lists["backlog"]) = 1
    /\ processed.lists["backlog"][1].labels = <<"lbl-B">>
    /\ processed.lists["backlog"][1].title = <<"x">>

(* C4: when the label filter is empty or absent (null, undefined or an      *)
(* empty array) the label stage passes every task: the projection is what   *)
(* it would be with no label filter at all.                                 *)
C4_EmptyLabelFilterPassesAll ==
    (/\ Projected
     /\ filters.label \in {NullLabel, LabelArray(<<>>)})
    => \A c \in DOMAIN kanban.tasks :
          processed.lists[c] =
              SortStage(PriorityStage(SearchStage(Arr(kanban.tasks[c], FALSE),
                                                  filters.search),
                                      filters.priority), filters.sort).items

(* C9: sorting is stable: two tasks of a column whose sort keys compare     *)
(* equal appear in the projection in the relative order of the stored list. *)
SortKeyOf(sort, t) ==
    CASE sort \in {"date", "date-asc"} -> <<t.createdAt>>
      [] sort \in {"priority", "priority-asc"} -> <<t.priority>>
      [] sort \in {"title", "title-desc"} -> t.title
      [] sort \in {"rating", "rating-asc"} -> <<IF t.rating = UndefRating THEN 0 ELSE t.rating>>
      [] OTHER -> <<>>

C9_SortStable ==
    Projected =>
        \A c \in DOMAIN kanban.tasks :
            \A i, j \in DOMAIN processed.lists[c] :
                (/\ i < j
                 /\ SortKeyOf(filters.sort, processed.lists[c][i])
                      = SortKeyOf(filters.sort, processed.lists[c][j]))
                => PositionOf(kanban.tasks[c], processed.lists[c][i].id)
                     < PositionOf(kanban.tasks[c], processed.lists[c][j].id)

\* a sort that moved a task past two tasks of equal key
C9_Witness ==
    /\ Projected
    /\ filters.sort = "rating"
    /\ Len(kanban.tasks["backlog"]) = 3
    /\ kanban.tasks["backlog"][1].rating = UndefRating
    /\ kanban.tasks["backlog"][2].rating = 0
    /\ kanban.tasks["backlog"][3].rating = 50
    /\ processed.lists["backlog"] =
          << kanban.tasks["backlog"][3], kanban.tasks["backlog"][1],
             kanban.tasks["backlog"][2] >>

(* C10: with a non-empty search term s a task passes the search stage iff   *)
(* its title or its details contains s, letter case ignored; with an empty  *)
(* search term every task passes.                                           *)
C10_SearchStage ==
    (/\ Projected
     /\ ~TruthyLabel(filters.label)
     /\ filters.priority = "")
    => \A c \in DOMAIN kanban.tasks :
          /\ IsSelectionOf(processed.lists[c], kanban.tasks[c])
          /\ Range(processed.lists[c]) =
                {t \in Range(kanban.tasks[c]) :
                    \/ filters.search = <<>>
                    \/ ContainsIgnoringCase(t.title, filters.search)
                    \/ ContainsIgnoringCase(t.details, filters.search)}

\* a search in another letter case kept a task for its details and dropped one
C10_Witness ==
    /\ Projected
    /\ filters.search = <<"Q", "l">>
    /\ ~TruthyLabel(filters.label)
    /\ filters.priority = ""
    /\ Len(kanban.tasks["backlog"]) = 2
    /\ Len(processed.lists["backlog"]) = 1
    /\ processed.lists["backlog"][1].details = <<"s", "Q", "L">>

(* C11: under sort 'priority' every column's projection is ordered by the   *)
(* rank Critical=4, High=3, Medium=2, Low=1 in non-increasing order, under  *)
(* 'priority-asc' in non-decreasing order, for tasks whose priorities are   *)
(* in the enum.                                                             *)
PriorityRank(p) ==
    CASE p = "Critical" -> 4 [] p = "High" -> 3 [] p = "Medium" -> 2 [] p = "Low" -> 1

PriorityEnum == {"Critical", "High", "Medium", "Low"}

C11_PriorityOrder ==
    (/\ Projected
     /\ filters.sort \in {"priority", "priority-asc"})
    => \A c \in DOMAIN kanban.tasks :
          (\A i \in DOMAIN kanban.tasks[c] : kanban.tasks[c][i].priority \in PriorityEnum)
          => \A i, j \in DOMAIN processed.lists[c] :
                i < j =>
                   IF filters.sort = "priority"
                   THEN PriorityRank(processed.lists[c][i].priority)
                          >= PriorityRank(processed.lists[c][j].priority)
                   ELSE PriorityRank(processed.lists[c][i].priority)
                          <= PriorityRank(processed.lists[c][j].priority)

\* stored [Medium, Low, Critical] projects to [Low, Medium, Critical] under
\* 'priority-asc'
C11_Witness ==
    /\ Projected
    /\ filters.sort = "priority-asc"
    /\ Len(kanban.tasks["backlog"]) = 3
    /\ kanban.tasks["backlog"][1].priority = "Medium"
    /\ kanban.tasks["backlog"][2].priority = "Low"
    /\ kanban.tasks["backlog"][3].priority = "Critical"
    /\ processed.lists["backlog"] =
          << kanban.tasks["backlog"][2], kanban.tasks["backlog"][1],
             kanban.tasks["backlog"][3] >>

----------------------------------------------------------------------------
(* useTaskManagement: column operations, with the column reducers *)

\* the most columns the board is given
MaxColumns == 3

\* addColumn(column): the column is appended; it gets an empty task list
addColumn(k, column) ==
    [k EXCEPT !.columns = Append(@, column),
              !.tasks = [c \in (DOMAIN k.tasks) \cup {column.id} |->
                            IF c \in DOMAIN k.tasks THEN k.tasks[c] ELSE <<>>]]

\* editColumn({id, data}): the validated fields title and order are applied to
\* the column with that id
editColumn(k, id, data) ==
    [k EXCEPT !.columns = [i \in DOMAIN k.columns |->
        IF k.columns[i].id = id
        THEN [k.columns[i] EXCEPT
                !.title = IF "title" \in data.keys THEN data.title ELSE @,
                !.order = IF "order" \in data.keys THEN data.order ELSE @]
        ELSE k.columns[i]]]

\* deleteColumn(id): the column and its task list are removed
deleteColumn(k, id) ==
    [k EXCEPT !.columns = SelectSeq(@, LAMBDA col : col.id # id),
              !.tasks = [c \in (DOMAIN k.tasks) \ {id} |-> k.tasks[c]]]

\* columnData: `keys` are the keys present
ColumnData(keys, title, order, id) ==
    [keys |-> keys, title |-> title, order |-> order, id |-> id]

\* `column_${Date.now()}`
ColumnIdAt(clock) == "column_" \o ToString(clock)

\* { id, title, order: kanban.columns.length, ...columnData }
NewColumn(k, columnData, clock) ==
    [id |-> IF "id" \in columnData.keys THEN columnData.id ELSE ColumnIdAt(clock),
     title |-> columnData.title,
     order |-> IF "order" \in columnData.keys THEN columnData.order
               ELSE Len(k.columns)]

addNewColumn(columnData) ==
    /\ Len(kanban.columns) < MaxColumns
    /\ kanban' = addColumn(kanban, NewColumn(kanban, columnData, now))
    /\ event' = Ev("addNewColumn", NoEmail)
    /\ UNCHANGED <<now, viewVars, authVars>>

updateColumn(id, data) ==
    /\ id \in ColumnIds(kanban)
    /\ kanban' = editColumn(kanban, id, data)
    /\ event' = Ev("updateColumn", NoEmail)
    /\ UNCHANGED <<now, viewVars, authVars>>

removeColumn(id) ==
    /\ id \in ColumnIds(kanban)
    /\ kanban' = deleteColumn(kanban, id)
    /\ event' = Ev("removeColumn", NoEmail)
    /\ UNCHANGED <<now, viewVars, authVars>>

\* what the add-column and edit-column forms hand over
NewColumnInputs ==
    { ColumnData({"title"}, "Doing", 0, ""),
      ColumnData({"title", "order"}, "Done", 1, "") }

ColumnPatches ==
    { ColumnData({"title"}, "Later", 0, ""),
      ColumnData({"order"}, "", 2, "") }

ColumnNext ==
    \/ \E d \in NewColumnInputs : addNewColumn(d)
    \/ \E id \in ColumnIds(kanban), d \in ColumnPatches : updateColumn(id, d)
    \/ \E id \in ColumnIds(kanban) : removeColumn(id)
    \/ Tick

ColumnSpec == Init /\ [][ColumnNext]_vars

(* C15: after any sequence of addColumn, editColumn and deleteColumn        *)
(* operations no two columns have the same order value.                     *)
C15_ColumnOrdersDistinct ==
    \A i, j \in DOMAIN kanban.columns :
        i # j => kanban.columns[i].order # kanban.columns[j].order

(* C16: column ids are unique and immutable: no two columns share an id,    *)
(* and no operation changes the id of an existing column.                   *)
C16_ColumnIdsUniqueImmutable ==
    [][/\ \A i, j \in DOMAIN kanban'.columns :
             i # j => kanban'.columns[i].id # kanban'.columns[j].id
       /\ event'.type = "updateColumn" =>
             /\ Len(kanban'.columns) = Len(kanban.columns)
             /\ \A i \in DOMAIN kanban.columns :
                   kanban'.columns[i].id = kanban.columns[i].id]_vars

----------------------------------------------------------------------------
(* useTaskManagement: task edits and label operations, with their reducers *)

\* the ids of the tasks on the board
TaskIds(k) == {AllTasks(k)[i].id : i \in DOMAIN AllTasks(k)}

\* the ids of the labels of the board
LabelIds(k) == {k.labels[i].id : i \in DOMAIN k.labels}

\* every task of every column replaced by f(task)
MapTasks(k, f(_)) ==
    [k EXCEPT !.tasks = [c \in DOMAIN k.tasks |->
                            [i \in DOMAIN k.tasks[c] |-> f(k.tasks[c][i])]]]

\* (mutant) the rating is stored as given
ValidRating_AsGiven(r) == r

\* the rating as the validation layer stores it: clamped to [0,10]
ValidRating(r) == IF r > 100 THEN 100 ELSE IF r < 0 THEN 0 ELSE r

\* editTask({taskId, data}): the validated fields of data are merged into the
\* task where it is
editTask(k, taskId, data) ==
    LET merged(t) ==
          [t EXCEPT
             !.title = IF "title" \in data.keys /\ TruthyStr(data.title)
                       THEN data.title ELSE @,
             !.details = IF "details" \in data.keys /\ data.details # UndefStr
                         THEN data.details ELSE @,
             !.labels = IF "labels" \in data.keys /\ data.labels # UndefLabels
                        THEN data.labels ELSE @,
             !.priority = IF "priority" \in data.keys
                             /\ data.priority \in {"Critical", "High", "Medium", "Low"}
                          THEN data.priority ELSE @,
             !.rating = IF "rating" \in data.keys /\ data.rating # UndefRating
                        THEN ValidRating(data.rating) ELSE @]
    IN  MapTasks(k, LAMBDA t : IF t.id = taskId THEN merged(t) ELSE t)

\* addLabel(label)
addLabel(k, label) == [k EXCEPT !.labels = Append(@, label)]

\* (mutant) the label is removed from the label list only
deleteLabel_ListOnly(k, labelId) ==
    [k EXCEPT !.labels = SelectSeq(@, LAMBDA l : l.id # labelId)]

\* deleteLabel(id): the label is removed, and detached from every task of
\* every column
deleteLabel(k, labelId) ==
    MapTasks([k EXCEPT !.labels = SelectSeq(@, LAMBDA l : l.id # labelId)],
             LAMBDA t : [t EXCEPT !.labels = SelectSeq(@, LAMBDA l : l # labelId)])

\* addLabelToTask({taskId, labelId}): attaching an attached label is a no-op
addLabelToTask(k, taskId, labelId) ==
    MapTasks(k, LAMBDA t :
        IF t.id = taskId /\ labelId \notin Range(t.labels)
        THEN [t EXCEPT !.labels = Append(@, labelId)] ELSE t)

\* removeLabelFromTask({taskId, labelId})
removeLabelFromTask(k, taskId, labelId) ==
    MapTasks(k, LAMBDA t :
        IF t.id = taskId
        THEN [t EXCEPT !.labels = SelectSeq(@, LAMBDA l : l # labelId)] ELSE t)

updateTask(taskId, data) ==
    /\ taskId \in TaskIds(kanban)
    /\ kanban' = editTask(kanban, taskId, data)
    /\ event' = Ev("updateTask", NoEmail)
    /\ UNCHANGED <<now, viewVars, authVars>>

addNewLabel(labelData) ==
    /\ labelData.id \notin LabelIds(kanban)
    /\ kanban' = addLabel(kanban, labelData)
    /\ event' = Ev("addNewLabel", NoEmail)
    /\ UNCHANGED <<now, viewVars, authVars>>

removeLabel(labelId) ==
    /\ labelId \in LabelIds(kanban)
    /\ kanban' = deleteLabel(kanban, labelId)
    /\ event' = Ev("removeLabel", NoEmail)
    /\ UNCHANGED <<now, viewVars, authVars>>

addTaskLabel(taskId, labelId) ==
    /\ taskId \in TaskIds(kanban)
    /\ labelId \in LabelIds(kanban)
    /\ kanban' = addLabelToTask(kanban, taskId, labelId)
    /\ event' = Ev("addTaskLabel", NoEmail)
    /\ UNCHANGED <<now, viewVars, authVars>>

removeTaskLabel(taskId, labelId) ==
    /\ taskId \in TaskIds(kanban)
    /\ kanban' = removeLabelFromTask(kanban, taskId, labelId)
    /\ event' = Ev("removeTaskLabel", NoEmail)
    /\ UNCHANGED <<now, viewVars, authVars>>

\* the labels the label form creates
LabelInputs ==
    { [id |-> "lbl-A", name |-> "bug", color |-> "#f00"],
      [id |-> "lbl-B", name |-> "ui", color |-> "#00ff00"] }

\* the patches the edit form hands to updateTask: ratings above, below and
\* within [0,10]
TaskPatches ==
    { TaskData({"rating"}, <<>>, <<>>, <<>>, "", 150),
      TaskData({"rating"}, <<>>, <<>>, <<>>, "", 0 - 30),
      TaskData({"rating"}, <<>>, <<>>, <<>>, "", 70) }

\* a task is added with an id no task of the board has, to the columns in turn
AddTaskFreshId ==
    addNewTask(kanban.columns[(TaskCount(kanban) % Len(kanban.columns)) + 1].id,
               TaskData({"title", "priority", "rating"},
                        <<"x">>, <<>>, <<>>, "High", 70),
               IdBase + TaskCount(kanban))

TaskNext ==
    \/ AddTaskFreshId
    \/ \E id \in TaskIds(kanban), d \in TaskPatches : updateTask(id, d)
    \/ \E l \in LabelInputs : addNewLabel(l)
    \/ \E l \in LabelIds(kanban) : removeLabel(l)
    \/ \E id \in TaskIds(kanban), l \in LabelIds(kanban) : addTaskLabel(id, l)
    \/ \E id \in TaskIds(kanban), l \in LabelIds(kanban) : removeTaskLabel(id, l)

TaskSpec == Init /\ [][TaskNext]_vars

C17_LabelDeleteCascades ==
    [][\A L \in LabelIds(kanban) :
          (event'.type = "removeLabel" /\ removeLabel(L)) =>
             /\ DOMAIN kanban'.tasks = DOMAIN kanban.tasks
             /\ \A c \in DOMAIN kanban.tasks :
                   /\ Len(kanban'.tasks[c]) = Len(kanban.tasks[c])
                   /\ \A i \in DOMAIN kanban.tasks[c] :
                         /\ L \notin Range(kanban'.tasks[c][i].labels)
                         /\ Range(kanban'.tasks[c][i].labels)
                               = Range(kanban.tasks[c][i].labels) \ {L}
                         /\ [kanban'.tasks[c][i] EXCEPT !.labels = <<>>]
                               = [kanban.tasks[c][i] EXCEPT !.labels = <<>>]]_vars

\* lbl-A was deleted: it is no label of the board, and of the two tasks that
\* carried labels one keeps lbl-B and the other keeps none
C17_Witness ==
    /\ event.type = "removeLabel"
    /\ LabelIds(kanban) = {"lbl-B"}
    /\ \E i, j \in DOMAIN AllTasks(kanban) :
          /\ AllTasks(kanban)[i].labels = <<"lbl-B">>
          /\ AllTasks(kanban)[j].labels = <<>>

----------------------------------------------------------------------------
(* inputSanitization.js: sanitizeNumber and sanitizeTaskData *)

\* Numbers are counted in tenths, so the numerals of the model carry at most
\* one decimal.  A raw value is undefined, a number or a string.
RawUndefined == [kind |-> "undefined", n |-> 0, s |-> <<>>]
RawNumber(n) == [kind |-> "number", n |-> n, s |-> <<>>]
RawString(s) == [kind |-> "string", n |-> 0, s |-> s]

NaN == [nan |-> TRUE, n |-> 0]
Num(n) == [nan |-> FALSE, n |-> n]

DigitSeq == <<"0", "1", "2", "3", "4", "5", "6", "7", "8", "9">>

DigitValue(c) == LetterIndex(c, DigitSeq) - 1

\* the value of a run of decimal digits
RECURSIVE DigitsValue(_)
DigitsValue(s) ==
    IF s = <<>> THEN 0
    ELSE 10 * DigitsValue(SubSeq(s, 1, Len(s) - 1)) + DigitValue(s[Len(s)])

\* parseFloat on a string: leading white space, a sign, digits, a decimal
\* point and digits; whatever follows is ignored, and NaN if no digit is read
ParseFloatString(str) ==
    LET t == TrimLeft(str)
        signed == t # <<>> /\ Head(t) \in {"+", "-"}
        body == IF signed THEN Tail(t) ELSE t
        intLen == RunLength(body, 1, Digits)
        hasPoint == Len(body) > intLen /\ body[intLen + 1] = "."
        fracLen == IF hasPoint THEN RunLength(body, intLen + 2, Digits) ELSE 0
        tenths == 10 * DigitsValue(SubSeq(body, 1, intLen))
                    + (IF fracLen > 0 THEN DigitValue(body[intLen + 2]) ELSE 0)
    IN  IF intLen = 0 /\ fracLen = 0 THEN NaN
        ELSE IF signed /\ Head(t) = "-" THEN Num(0 - tenths) ELSE Num(tenths)

\* parseFloat(input): a number reads as itself, undefined as NaN
parseFloat(input) ==
    CASE input.kind = "number" -> Num(input.n)
      [] input.kind = "string" -> ParseFloatString(input.s)
      [] OTHER -> NaN

Max(a, b) == IF a > b THEN a ELSE b

\* sanitizeNumber(input, {min, max, defaultValue, allowFloat})
sanitizeNumber(input, min, max, defaultValue, allowFloat) ==
    LET parsed == parseFloat(input)
        num == IF allowFloat THEN parsed.n ELSE (parsed.n \div 10) * 10
    IN  IF parsed.nan THEN defaultValue ELSE Max(min, Min(max, num))

TitleMaxLength == 200
DetailsMaxLength == 2000
LabelMaxLength == 50
MaxLabelsPerTask == 10
RatingMin == 0
RatingMax == 100

allowedPriorities == {"Critical", "High", "Medium", "Low"}
allowedStatuses == {"", "active", "completed", "archived"}

\* raw task data: `keys` are the keys present; title and details are strings,
\* priority and status strings, rating a raw value, labels an array of strings
RawTaskData(keys, title, details, priority, rating, labels, status) ==
    [keys |-> keys,
     title |-> IF "title" \in keys THEN title ELSE UndefStr,
     details |-> IF "details" \in keys THEN details ELSE UndefStr,
     priority |-> IF "priority" \in keys THEN priority ELSE UndefPriority,
     rating |-> IF "rating" \in keys THEN rating ELSE RawUndefined,
     labels |-> IF "labels" \in keys THEN labels ELSE UndefLabels,
     status |-> IF "status" \in keys THEN status ELSE ""]

\* sanitizeTaskData(taskData): the keys of the result and their values
sanitizeTaskData(taskData) ==
    LET hasTitle == TruthyStr(taskData.title)
        hasDetails == TruthyStr(taskData.details)
        hasPriority == /\ TruthyPriority(taskData.priority)
                       /\ taskData.priority \in allowedPriorities
        hasRating == taskData.rating # RawUndefined
        hasLabels == taskData.labels # UndefLabels
        hasStatus == taskData.status # "" /\ taskData.status \in allowedStatuses
        cleanLabels ==
            SelectSeq([i \in DOMAIN taskData.labels |->
                          sanitizeInput(taskData.labels[i], LabelMaxLength, FALSE, TRUE)],
                      LAMBDA l : Len(l) > 0)
    IN  [keys |-> {k \in {"title"} : hasTitle} \cup {k \in {"details"} : hasDetails}
                  \cup {k \in {"priority"} : hasPriority}
                  \cup {k \in {"rating"} : hasRating}
                  \cup {k \in {"labels"} : hasLabels}
                  \cup {k \in {"status"} : hasStatus},
         title |-> IF hasTitle
                   THEN sanitizeInput(taskData.title, TitleMaxLength, FALSE, FALSE)
                   ELSE UndefStr,
         details |-> IF hasDetails
                     THEN sanitizeInput(taskData.details, DetailsMaxLength, FALSE, TRUE)
                     ELSE UndefStr,
         priority |-> IF hasPriority THEN taskData.priority ELSE UndefPriority,
         rating |-> IF hasRating
                    THEN sanitizeNumber(taskData.rating, RatingMin, RatingMax, 0, TRUE)
                    ELSE UndefRating,
         labels |-> IF hasLabels
                    THEN SubSeq(cleanLabels, 1, Min(Len(cleanLabels), MaxLabelsPerTask))
                    ELSE UndefLabels,
         status |-> IF hasStatus THEN taskData.status ELSE ""]

----------------------------------------------------------------------------
(* The sanitizers on bounded inputs *)

\* the most fragments an input string is put together from
MaxFragments == 3

DefaultMaxLength == 1000

RECURSIVE Join(_)
Join(fragments) ==
    IF fragments = <<>> THEN <<>> ELSE Head(fragments) \o Join(Tail(fragments))

\* fragments of scripts and event handlers
InputFragments ==
    { <<"j", "a", "v", "a">>,
      <<"s", "c", "r", "i", "p", "t", ":">>,
      <<"J", "a", "v", "a", "S", "c", "r", "i", "p", "t", ":">>,
      <<"o", "n", "x", " ", "=">>,
      <<"O", "N">>,
      <<"<", "b", ">">>,
      <<"a", "=", "1">> }

\* addresses, markup and what else a user types into the email field
EmailFragments ==
    { <<"u", "s", "e", "r", "@", "e", "x", "a", "m", "p", "l", "e", ".", "c", "o", "m">>,
      <<"<", "s", "c", "r", "i", "p", "t", ">">>,
      <<"A", "@", "b", ".", "c", "o">>,
      <<" ">>,
      <<"@">>,
      <<"!">> }

\* raw task data as a form may hand it over
RawTaskInputs ==
    { RawTaskData(keys, title, <<>>, priority, rating, labels, "") :
        keys \in { {"title", "priority", "rating"}, {"title", "rating", "labels"},
                   {"priority"} },
        title \in { <<>>, <<"<", "b", ">">>, <<"T", "<", "i", ">">> },
        priority \in { "High", "Urgent" },
        rating \in { RawNumber(85), RawNumber(150), RawString(<<"8", ".", "5">>),
                     RawString(<<"a", "b", "c">>), RawString(<<>>) },
        labels \in { << <<"b", "u", "g">>, <<"<", "i", ">">> >> } }

Call(fn, input) == [fn |-> fn, input |-> input, done |-> FALSE, output |-> <<>>]

Return(call, output) == [call EXCEPT !.done = TRUE, !.output = output]

SanitizeInit ==
    /\ \/ \E fs \in SeqsUpTo(InputFragments, MaxFragments) :
            sanitizerCall = Call("sanitizeInput", Join(fs))
       \/ \E fs \in SeqsUpTo(EmailFragments, MaxFragments) :
            sanitizerCall = Call("sanitizeEmail", Join(fs))
       \/ \E raw \in RawTaskInputs :
            sanitizerCall = Call("sanitizeTaskData", raw)
    /\ modal = ClosedModal
    /\ card = NoCard
    /\ kanban = DefaultSeed
    /\ now = 0
    /\ filters = DefaultFilters
    /\ processed = NoProjection
    /\ auth = InitialAuth
    /\ registeredUsers = <<>>
    /\ persisted = NothingPersisted
    /\ requests = EmptyBag
    /\ event = Ev("init", NoEmail)

Returns(fn, result) ==
    /\ sanitizerCall.fn = fn
    /\ ~sanitizerCall.done
    /\ \E output \in {result} : sanitizerCall' = Return(sanitizerCall, output)
    /\ event' = Ev(fn, NoEmail)
    /\ UNCHANGED <<boardVars, filters, processed, modal, card, authVars>>

\* sanitizeInput(input) with the default options
CallSanitizeInput ==
    Returns("sanitizeInput",
            sanitizeInput(sanitizerCall.input, DefaultMaxLength, FALSE, TRUE))

CallSanitizeEmail ==
    Returns("sanitizeEmail", sanitizeEmail(sanitizerCall.input))

CallSanitizeTaskData ==
    Returns("sanitizeTaskData", sanitizeTaskData(sanitizerCall.input))

SanitizeNext ==
    \/ CallSanitizeInput
    \/ CallSanitizeEmail
    \/ CallSanitizeTaskData

SanitizeSpec == SanitizeInit /\ [][SanitizeNext]_vars

(* C18: sanitizeTaskData returns only fields that passed validation: a key  *)
(* is in the result only if the raw value was valid for the field, so an    *)
(* unparseable rating, or a title that is empty after sanitization, yields  *)
(* a result without that key.                                               *)
C18_OnlyValidFields ==
    (sanitizerCall.fn = "sanitizeTaskData" /\ sanitizerCall.done)
    => LET raw == sanitizerCall.input
           result == sanitizerCall.output
       IN  /\ "title" \in result.keys => result.title # <<>>
           /\ "rating" \in result.keys =>
                 /\ ~parseFloat(raw.rating).nan
                 /\ result.rating \in 0..100
           /\ "priority" \in result.keys =>
                 raw.priority \in {"Critical", "High", "Medium", "Low"}
           /\ "labels" \in result.keys =>
                 \A i \in DOMAIN result.labels : result.labels[i] # <<>>

\* an event-handler pattern on<word>= occurs in s
HasHandlerPattern(s) ==
    \E i \in 1..Len(s), w \in 1..Len(s), sp \in 0..Len(s) :
        /\ i + 2 + w + sp <= Len(s)
        /\ LowerChar(s[i]) = "o"
        /\ LowerChar(s[i + 1]) = "n"
        /\ \A j \in (i + 2)..(i + 1 + w) : s[j] \in WordChars
        /\ \A j \in (i + 2 + w)..(i + 1 + w + sp) : s[j] \in Whitespace
        /\ s[i + 2 + w + sp] = "="

(* C19: the result of sanitizeInput with allowHTML = false contains no      *)
(* 'javascript:' in any letter case and no event-handler pattern on<word>=. *)
C19_NoScriptNoHandler ==
    (sanitizerCall.fn = "sanitizeInput" /\ sanitizerCall.done)
    => /\ ~ContainsIgnoringCase(sanitizerCall.output, JavascriptProtocol)
       /\ ~HasHandlerPattern(sanitizerCall.output)

ExampleAddress ==
    <<"u", "s", "e", "r", "@", "e", "x", "a", "m", "p", "l", "e", ".", "c", "o", "m">>
ExampleMarkup == <<"<", "s", "c", "r", "i", "p", "t", ">">>

(* C20: sanitizeEmail returns the address with malicious content removed:   *)
(* for 'user@example.com<script>' it returns 'user@example.com'; in every   *)
(* case the result is the empty string or a lower-case string in email      *)
(* format.                                                                  *)
C20_EmailCleaned ==
    (sanitizerCall.fn = "sanitizeEmail" /\ sanitizerCall.done)
    => /\ sanitizerCall.input = ExampleAddress \o ExampleMarkup
             => sanitizerCall.output = ExampleAddress
       /\ \/ sanitizerCall.output = <<>>
          \/ /\ sanitizerCall.output = toLowerCase(sanitizerCall.output)
             /\ EmailFormat(sanitizerCall.output)

----------------------------------------------------------------------------
(* AddTaskModal.jsx: the form of a new task *)

TitleRequiredMsg == "Task title is required"
TitleTooLongMsg == "Title must be 200 characters or less"
PriorityRequiredMsg == "Priority level is required"
RatingRequiredMsg == "Rating is required"
RatingRangeMsg == "Rating must be between 0.0 and 10.0"

\* the callbacks a handler called: the tasks handed to onSubmit, and onClose
NothingCalled == [onSubmit |-> <<>>, onClose |-> FALSE]

\* formData as sanitizeTaskData receives it: title, priority, rating, labels
FormTaskData(formData) ==
    RawTaskData({"title", "priority", "rating", "labels"}, formData.title, <<>>,
                formData.priority, RawString(formData.rating), formData.labels, "")

\* validateForm, title: !sanitizedData.title || its trim is empty; too long
TitleError(sanitizedData) ==
    IF \/ "title" \notin sanitizedData.keys
       \/ ~TruthyStr(sanitizedData.title)
       \/ trim(sanitizedData.title) = <<>>
    THEN TitleRequiredMsg
    ELSE IF Len(sanitizedData.title) > TitleMaxLength THEN TitleTooLongMsg ELSE ""

\* validateForm, priority: !formData.priority
PriorityError(formData) ==
    IF formData.priority = "" THEN PriorityRequiredMsg ELSE ""

RatingError_AnyNumber(formData) ==
    IF formData.rating = <<>> \/ trim(formData.rating) = <<>>
    THEN RatingRequiredMsg
    ELSE IF ParseFloatString(formData.rating).nan THEN RatingRangeMsg ELSE ""

\* validateForm, rating: empty or blank; else parseFloat is NaN, < 0 or > 10
RatingError(formData) ==
    IF formData.rating = <<>> \/ trim(formData.rating) = <<>>
    THEN RatingRequiredMsg
    ELSE LET rating == ParseFloatString(formData.rating)
         IN  IF rating.nan \/ rating.n < 0 \/ rating.n > 100
             THEN RatingRangeMsg ELSE ""

\* validateForm(): the errors it sets and { isValid, sanitizedData }
validateForm(formData) ==
    LET sanitizedData == sanitizeTaskData(FormTaskData(formData))
        newErrors == [title |-> TitleError(sanitizedData),
                      priority |-> PriorityError(formData),
                      rating |-> RatingError(formData)]
    IN  [newErrors |-> newErrors,
         isValid |-> newErrors = NoErrors,
         sanitizedData |-> sanitizedData]

\* the task handleSubmit hands to onSubmit
SubmittedTask(columnId, formData, sanitizedData) ==
    [columnId |-> columnId,
     title |-> sanitizedData.title,
     priority |-> formData.priority,
     rating |-> Min(Max(ParseFloatString(formData.rating).n, 0), 100),
     starred |-> FALSE,
     labels |-> IF "labels" \in sanitizedData.keys THEN sanitizedData.labels ELSE <<>>]

\* the parent renders the modal for a column (isOpen becomes true)
OpenModal(columnId) ==
    /\ ~modal.isOpen
    /\ modal' = [modal EXCEPT !.isOpen = TRUE, !.columnId = columnId,
                              !.called = NothingCalled]
    /\ event' = Ev("openModal", NoEmail)
    /\ UNCHANGED <<boardVars, filters, processed, sanitizerCall, card, authVars>>

\* handleChange(field, value): sets the field and clears the field's error
handleChange(field, value) ==
    /\ modal.isOpen
    /\ modal.formData[field] # value
    /\ modal' = [modal EXCEPT !.formData[field] = value,
                              !.errors = IF field \in DOMAIN modal.errors
                                         THEN [@ EXCEPT ![field] = ""] ELSE @,
                              !.called = NothingCalled]
    /\ event' = Ev("handleChange", NoEmail)
    /\ UNCHANGED <<boardVars, filters, processed, sanitizerCall, card, authVars>>

\* handleSubmit(e): validates; if valid calls onSubmit, resets the form and
\* calls onClose; if not, keeps the form and shows the errors.  (The catch
\* branch is for an onSubmit that throws; the board's addNewTask does not.)
handleSubmit ==
    /\ modal.isOpen
    /\ \E v \in {validateForm(modal.formData)} :
         IF ~v.isValid
         THEN modal' = [modal EXCEPT !.errors = v.newErrors, !.called = NothingCalled]
         ELSE modal' = [modal EXCEPT
                          !.called = [onSubmit |->
                                         <<SubmittedTask(modal.columnId, modal.formData,
                                                         v.sanitizedData)>>,
                                      onClose |-> TRUE],
                          !.formData = getDefaultValues,
                          !.errors = NoErrors,
                          !.isOpen = FALSE]
    /\ event' = Ev("handleSubmit", NoEmail)
    /\ UNCHANGED <<boardVars, filters, processed, sanitizerCall, card, authVars>>

\* handleClose(): resets the form and calls onClose
handleClose ==
    /\ modal.isOpen
    /\ modal' = [modal EXCEPT !.formData = getDefaultValues, !.errors = NoErrors,
                              !.called = [onSubmit |-> <<>>, onClose |-> TRUE],
                              !.isOpen = FALSE]
    /\ event' = Ev("handleClose", NoEmail)
    /\ UNCHANGED <<boardVars, filters, processed, sanitizerCall, card, authVars>>

\* what a user types and selects
FormTitles == { <<"T">>, <<"<", "b", ">">>, <<" ">> }
FormPriorities == { "High", "Low", "" }
FormRatings == { <<"5">>, <<"0">>, <<"1", "0", ".", "5">>, <<"-", "3">>,
                 <<"a", "b", "c">>, <<" ">>, <<>> }
FormLabels == { << <<"b", "u", "g">> >> }

ModalNext ==
    \/ \E c \in ColumnIds(kanban) : OpenModal(c)
    \/ \E title \in FormTitles \cup {<<>>} : handleChange("title", title)
    \/ \E priority \in FormPriorities : handleChange("priority", priority)
    \/ \E rating \in FormRatings : handleChange("rating", rating)
    \/ \E labels \in FormLabels \cup {<<>>} : handleChange("labels", labels)
    \/ handleSubmit
    \/ handleClose

ModalSpec == Init /\ [][ModalNext]_vars

----------------------------------------------------------------------------
(* The search stage on tasks of the task data model *)

\* task data of the data model, which has no details field: the key is
\* absent, or present with the value undefined
ModelTaskInputs ==
    { TaskData({"title", "priority", "rating"}, <<"S", "q", "l">>, <<>>, <<>>, "High", 50),
      TaskData({"title", "details", "priority", "rating"},
               <<"x">>, UndefStr, <<>>, "Low", 70) }

\* a persisted snapshot whose task is of the data model: no details field
ModelSnapshots ==
    { [DefaultSeed EXCEPT !.tasks[c] =
          << [id |-> IdBase, title |-> <<"x">>, details |-> UndefStr, labels |-> <<>>,
              priority |-> "Low", rating |-> 70, createdAt |-> 0] >>] :
        c \in ColumnIds(DefaultSeed) }

\* the store is hydrated wholesale from a snapshot
HydrateBoard(snapshot) ==
    /\ kanban # snapshot
    /\ kanban' = setKanbanFromLocalStorage(kanban, snapshot)
    /\ event' = Ev("setKanbanFromLocalStorage", NoEmail)
    /\ UNCHANGED <<now, viewVars, authVars>>

SearchInit ==
    /\ \E search \in Searches : filters = [DefaultFilters EXCEPT !.search = search]
    /\ kanban = DefaultSeed
    /\ now = 0
    /\ processed = NoProjection
    /\ auth = InitialAuth
    /\ registeredUsers = <<>>
    /\ persisted = NothingPersisted
    /\ requests = EmptyBag
    /\ sanitizerCall = NoCall
    /\ modal = ClosedModal
    /\ card = NoCard
    /\ event = Ev("init", NoEmail)

SearchNext ==
    \/ \E c \in ColumnIds(kanban), d \in ModelTaskInputs, id \in TaskIdRange :
          addNewTask(c, d, id)
    \/ \E snapshot \in ModelSnapshots : HydrateBoard(snapshot)
    \/ processedTasks

SearchSpec == SearchInit /\ [][SearchNext]_vars

(* C28: for every stored task that conforms to the task data model (which   *)
(* has no required details field) and every search term, computing the      *)
(* projection completes without an error and returns a list for every       *)
(* column of the store.                                                     *)
C28_ProjectionCompletes ==
    event.type = "processedTasks"
    => /\ processed.status = "ok"
       /\ DOMAIN processed.lists = DOMAIN kanban.tasks

----------------------------------------------------------------------------
(* KanbanTaskCard: the rating shown on a task card *)

\* the segments of the rating ring
RatingSegments == 12

\* Math.round of n / d for n >= 0
Round(n, d) == (2 * n + d) \div (2 * d)

\* const ratingValue = task.rating || 8.8
ratingValue(task) == IF TruthyRating(task.rating) THEN task.rating ELSE 88

\* Math.round((ratingValue / 10) * 12)
filledSegments(task) == Round(ratingValue(task) * RatingSegments, 100)

\* the card of the task at position i of column c is rendered
KanbanTaskCard(c, i) ==
    LET task == kanban.tasks[c][i]
    IN  /\ card' = [taskId |-> task.id, ratingValue |-> ratingValue(task),
                    filledSegments |-> filledSegments(task)]
        /\ card' # card
        /\ event' = Ev("KanbanTaskCard", NoEmail)
        /\ UNCHANGED <<boardVars, filters, processed, sanitizerCall, modal, authVars>>

\* tasks as the add-task form submits them, with ratings from 0 to 10
CardTaskInputs ==
    { TaskData({"title", "priority", "rating"}, <<"x">>, <<>>, <<>>, "High", r) :
        r \in {0, 4, 50, 88, 100} }

CardNext ==
    \/ \E c \in ColumnIds(kanban), d \in CardTaskInputs, id \in TaskIdRange :
          addNewTask(c, d, id)
    \/ \E c \in ColumnIds(kanban) : \E i \in DOMAIN kanban.tasks[c] : KanbanTaskCard(c, i)

CardSpec == Init /\ [][CardNext]_vars

(* C30: for every stored rating in [0,10], including 0, the rating shown on *)
(* the task card (the number and the count of filled segments) is that      *)
(* stored rating, and a task created with rating 0 is stored with rating 0. *)
C30_CardShowsStoredRating ==
    [][/\ \A c \in ColumnIds(kanban) : \A i \in DOMAIN kanban.tasks[c] :
            (/\ event'.type = "KanbanTaskCard"
             /\ KanbanTaskCard(c, i)
             /\ kanban.tasks[c][i].rating \in 0..100)
            => /\ card'.ratingValue = kanban.tasks[c][i].rating
               /\ card'.filledSegments =
                     Round(kanban.tasks[c][i].rating * RatingSegments, 100)
       /\ \A c \in ColumnIds(kanban), d \in CardTaskInputs, id \in TaskIdRange :
            (event'.type = "addNewTask" /\ addNewTask(c, d, id) /\ d.rating = 0)
            => kanban'.tasks[c][Len(kanban'.tasks[c])].rating = 0]_vars

====
